---- MODULE Spec2Model ----
(***************************************************************************)
(* Model of the padloc client core: the error taxonomy and the             *)
(* response-to-error decoder (packages/core/src/error.ts) and the          *)
(* authenticated call pipeline of Client (client.ts).                      *)
(*                                                                         *)
(* A JavaScript value that may be `undefined` is a sequence of length at   *)
(* most one: <<>> is undefined, <<v>> is the value v.                      *)
(***************************************************************************)
EXTENDS Integers, Sequences, FiniteSets, TLC

VARIABLES
    request,    \* error.ts: the failed exchange handed to errFromRequest
    ctor,       \* error.ts: the arguments handed to the Err constructor
    err,        \* error.ts: the Err produced, <<>> before the function ran
    session,    \* Client.state.session: <<>> is null
    calls,      \* the operations started on the client, in order of start
    heap,       \* the RequestProgress objects created so far, by reference
    atts        \* the Attachment objects: their progress references

errVars == <<request, ctor, err>>
clientVars == <<session, calls, heap, atts>>
vars == <<request, ctor, err, session, calls, heap, atts>>

None == <<>>
Some(v) == <<v>>

(***************************************************************************)
(* JavaScript truthiness of a possibly-undefined string, number, boolean.  *)
(***************************************************************************)
TruthyStr(s) == s # None /\ s[1] # ""
TruthyNum(n) == n # None /\ n[1] # 0
TruthyBool(b) == b # None /\ b[1]

(***************************************************************************)
(* error.ts: enum ErrorCode                                                *)
(***************************************************************************)
ErrorCode ==
    { "invalid_container_data", "unsupported_container_version",
      "invalid_encryption_params", "invalid_key_wrap_params",
      "invalid_key_params", "decryption_failed", "encryption_failed",
      "not_supported", "public_key_mismatch", "missing_access",
      "failed_connection", "unexpected_redirect",
      "bad_request", "invalid_session", "session_expired",
      "deprecated_api_version", "insufficient_permissions",
      "rate_limit_exceeded", "invalid_credentials", "account_exists",
      "email_verification_failed", "invalid_response", "invalid_request",
      "merge_conflict", "max_request_size_exceeded",
      "storage_quota_exceeded",
      "client_error", "server_error", "unknown_error",
      "encoding_error", "not_found", "invalid_csv" }

\* messages[code]: the entry, or undefined for a key the table lacks.
messages(code) ==
    IF code = Some("email_verification_failed") THEN Some("Email verification failed.")
    ELSE IF code = Some("invalid_credentials") THEN Some("Username or password incorrect.")
    ELSE IF code = Some("account_exists") THEN Some("This account already exists.")
    ELSE None

\* statusCodes[code]: the entry, or undefined for a key the table lacks.
statusCodes(code) ==
    IF code \in {Some("bad_request"), Some("email_verification_failed")} THEN Some(400)
    ELSE IF code \in {Some("invalid_session"), Some("session_expired"),
                      Some("invalid_credentials")} THEN Some(401)
    ELSE IF code = Some("insufficient_permissions") THEN Some(403)
    ELSE IF code = Some("not_found") THEN Some(404)
    ELSE IF code = Some("deprecated_api_version") THEN Some(406)
    ELSE IF code = Some("account_exists") THEN Some(409)
    ELSE None

\* The default `opts = {}` of the constructor.
NoOpts == [report |-> None, display |-> None, status |-> None, error |-> None]

\* Mutant of ErrStatus: a kind without a table entry falls back to 400.
ErrStatusFallback400(code, opts) ==
    IF TruthyNum(opts.status) THEN opts.status[1]
    ELSE IF TruthyNum(statusCodes(code)) THEN statusCodes(code)[1]
    ELSE 400

\* opts.status || statusCodes[code] || 500
ErrStatus(code, opts) ==
    IF TruthyNum(opts.status) THEN opts.status[1]
    ELSE IF TruthyNum(statusCodes(code)) THEN statusCodes(code)[1]
    ELSE 500

\* message || messages[code] || (opts.error && opts.error.message) || ""
ErrMessage(code, message, opts) ==
    IF TruthyStr(message) THEN message[1]
    ELSE IF TruthyStr(messages(code)) THEN messages(code)[1]
    ELSE IF opts.error # None /\ opts.error[1].message # "" THEN opts.error[1].message
    ELSE ""

\* Mutant of Err: display is set from its own option.
ErrOwnDisplay(code, message, opts) ==
    [ class         |-> "Err",
      code          |-> code,
      message       |-> ErrMessage(code, message, opts),
      status        |-> ErrStatus(code, opts),
      report        |-> TruthyBool(opts.report),
      display       |-> TruthyBool(opts.display),
      originalError |-> opts.error ]

\* new Err(code, message, opts)
Err(code, message, opts) ==
    [ class         |-> "Err",
      code          |-> code,
      message       |-> ErrMessage(code, message, opts),
      status        |-> ErrStatus(code, opts),
      report        |-> TruthyBool(opts.report),
      display       |-> TruthyBool(opts.report),
      originalError |-> opts.error ]

(***************************************************************************)
(* Number.prototype.toString() of an integer, as its sequence of           *)
(* characters: the decimal digits, after a "-" for a negative number.      *)
(***************************************************************************)
DigitChar(d) ==
    CASE d = 0 -> "0" [] d = 1 -> "1" [] d = 2 -> "2" [] d = 3 -> "3"
      [] d = 4 -> "4" [] d = 5 -> "5" [] d = 6 -> "6" [] d = 7 -> "7"
      [] d = 8 -> "8" [] d = 9 -> "9"

RECURSIVE Digits(_)
Digits(n) == IF n < 10 THEN <<DigitChar(n)>>
             ELSE Append(Digits(n \div 10), DigitChar(n % 10))

NumberToString(n) == IF n < 0 THEN <<"-">> \o Digits(-n) ELSE Digits(n)

(***************************************************************************)
(* The failed exchanges: XMLHttpRequest.responseText and .status.          *)
(***************************************************************************)
BodyEmpty      == ""
BodyHtml       == "<html>Bad Gateway</html>"
BodyNull       == "null"
BodyEmptyObj   == "{}"
BodyBareString == "\"oops\""
BodyExpired    == "{\"error\":\"session_expired\",\"message\":\"x\"}"
BodyRateLimit  == "{\"error\":\"rate_limit_exceeded\",\"message\":\"slow down\"}"
BodyNoMessage  == "{\"error\":\"invalid_credentials\",\"message\":\"\"}"
BodyUndeclared == "{\"error\":\"teapot\",\"message\":\"short and stout\"}"

Bodies == { BodyEmpty, BodyHtml, BodyNull, BodyEmptyObj, BodyBareString,
            BodyExpired, BodyRateLimit, BodyNoMessage, BodyUndeclared }

Statuses == { -1, 0, 3, 45, 100, 200, 302, 401, 404, 418, 500, 503 }

Requests == [responseText : Bodies, status : Statuses]

(***************************************************************************)
(* encoding.ts unmarshal(): JSON.parse of the text, raising on text that   *)
(* is not JSON.  The value is an object with its `error` and `message`     *)
(* properties, the value null, or a string.                                *)
(***************************************************************************)
JsonObject(error, message) ==
    [threw |-> FALSE, type |-> "object", error |-> error, message |-> message]

unmarshal(text) ==
    CASE text = BodyExpired    -> JsonObject(Some("session_expired"), Some("x"))
      [] text = BodyRateLimit  -> JsonObject(Some("rate_limit_exceeded"), Some("slow down"))
      [] text = BodyNoMessage  -> JsonObject(Some("invalid_credentials"), Some(""))
      [] text = BodyUndeclared -> JsonObject(Some("teapot"), Some("short and stout"))
      [] text = BodyEmptyObj   -> JsonObject(None, None)
      [] text = BodyBareString ->
            [threw |-> FALSE, type |-> "string", error |-> None, message |-> None]
      [] text = BodyNull ->
            [threw |-> FALSE, type |-> "null", error |-> None, message |-> None]
      [] OTHER ->
            [threw |-> TRUE, type |-> "none", error |-> None, message |-> None]

\* Whether the try block of errFromRequest raises: unmarshal raised, or the
\* destructuring `const { error, message } = null` raised a TypeError.
TryRaises(text) == unmarshal(text).threw \/ unmarshal(text).type = "null"

\* The options object literal { status: request.status }.
StatusOpts(status) == [NoOpts EXCEPT !.status = Some(status)]

\* Mutant of errFromRequest: the switch tests the last character.
errFromRequestLastChar(req) ==
    LET c == NumberToString(req.status)[Len(NumberToString(req.status))]
        o == StatusOpts(req.status)
    IN  IF ~TryRaises(req.responseText)
        THEN Err(unmarshal(req.responseText).error,
                 unmarshal(req.responseText).message, o)
        ELSE IF c = "0" THEN Err(Some("failed_connection"), Some(req.responseText), o)
        ELSE IF c = "3" THEN Err(Some("unexpected_redirect"), Some(req.responseText), o)
        ELSE IF c = "4" THEN Err(Some("client_error"), Some(req.responseText), o)
        ELSE Err(Some("server_error"), Some(req.responseText), o)

\* errFromRequest(request)
errFromRequest(req) ==
    LET c == NumberToString(req.status)[1]
        o == StatusOpts(req.status)
    IN  IF ~TryRaises(req.responseText)
        THEN Err(unmarshal(req.responseText).error,
                 unmarshal(req.responseText).message, o)
        ELSE IF c = "0" THEN Err(Some("failed_connection"), Some(req.responseText), o)
        ELSE IF c = "3" THEN Err(Some("unexpected_redirect"), Some(req.responseText), o)
        ELSE IF c = "4" THEN Err(Some("client_error"), Some(req.responseText), o)
        ELSE Err(Some("server_error"), Some(req.responseText), o)

(***************************************************************************)
(* The arguments of the Err constructor.                                   *)
(***************************************************************************)
OptBool == {None, Some(TRUE), Some(FALSE)}

Causes == { [class |-> "Error", message |-> "boom"],
            [class |-> "Error", message |-> ""] }

CtorStatuses == {0, 200, 401, 418, 500}

CtorOpts == [ report  : OptBool,
              display : OptBool,
              status  : {None} \cup {Some(s) : s \in CtorStatuses},
              error   : {None} \cup {Some(c) : c \in Causes} ]

CtorArgs == [ code    : {Some(k) : k \in ErrorCode},
              message : {None, Some(""), Some("custom")},
              opts    : CtorOpts ]

(***************************************************************************)
(* client.ts.  The collaborators of Client are interfaces: what a Session, *)
(* a Sender and an Attachment resolve with or raise is the environment's   *)
(* choice among the values below.                                          *)
(***************************************************************************)
MaxCalls == 2

Sessions == {"s1"}

Attachments == {"att"}

PlainError(message) == [class |-> "Error", message |-> message]

\* What session.authenticate, session.verify and att.serialize may raise.
AuthenticateErrors == { PlainError("authenticate failed") }
VerifyErrors == { PlainError("verify failed") }
SerializeErrors == { PlainError("serialize failed") }

\* What sender.send may raise: the decoder's error for a failed exchange,
\* or any other error.
SendErrors == { errFromRequest([responseText |-> BodyEmpty, status |-> 0]),
                PlainError("socket closed") }

\* What sender.send may resolve with: a Response with a result, or with a
\* structured error.
ResponseError(code, message) == [code |-> code, message |-> message]

Responses ==
    { [error |-> None, result |-> Some("r1")],
      [error |-> None, result |-> Some("r2")],
      [error |-> Some(ResponseError("invalid_credentials", "")), result |-> None],
      [error |-> Some(ResponseError("teapot", "short and stout")), result |-> None] }

\* An operation of the API that has not reached Client.call yet.
NewOp(op, att) ==
    [ op        |-> op,       \* the API method
      att       |-> att,      \* the Attachment it was given, if any
      created   |-> None,     \* the RequestProgress it created, if any
      pc        |-> "start",  \* the await the operation is suspended at
      session   |-> None,     \* call(): const { session } = this.state
      progress  |-> None,     \* call(): the progress argument, a heap reference
      res       |-> None,     \* call(): res
      authOn    |-> None,     \* the session authenticate() was invoked on
      verifyOn  |-> None,     \* the session verify() was invoked on
      verifyArg |-> None,     \* the response verify() was invoked with
      verdict   |-> None,     \* what verify() resolved to
      error     |-> None,     \* the error the operation rejected with
      result    |-> None,     \* the response call() returned
      log       |-> <<>> ]    \* the collaborator calls made, in order

\* Mutant of Throw: a first failure of the transport is retried.
ThrowRetrySend(k, e) ==
    IF k.pc = "send" /\ Len(SelectSeq(k.log, LAMBDA x : x = "send")) = 1
    THEN [k EXCEPT !.log = Append(@, "send")]
    ELSE [k EXCEPT !.pc = "rejected", !.error = Some(e), !.log = Append(@, "throw")]

\* throw e
Throw(k, e) ==
    [k EXCEPT !.pc = "rejected", !.error = Some(e), !.log = Append(@, "throw")]

\* return res
Return(k, res) ==
    [k EXCEPT !.pc = "returned", !.result = Some(res), !.log = Append(@, "return")]

\* this.sender.send(req, progress) is invoked.
InvokeSend(k) == [k EXCEPT !.pc = "send", !.log = Append(@, "send")]

\* Mutant of EnterCall: the envelope goes to the sender unauthenticated.
EnterCallNoAuth(k, sess, progress) ==
    InvokeSend([k EXCEPT !.session = sess, !.progress = progress,
                         !.log = Append(@, "call")])

\* call(), up to its first await: the session is captured; with a session
\* authenticate is invoked, without one the envelope goes to the sender.
EnterCall(k, sess, progress) ==
    LET k1 == [k EXCEPT !.session = sess, !.progress = progress,
                        !.log = Append(@, "call")]
    IN  IF sess # None
        THEN [k1 EXCEPT !.pc = "authenticate", !.authOn = sess,
                        !.log = Append(@, "authenticate")]
        ELSE InvokeSend(k1)

\* call(), resumed after `await session.authenticate(req)` resolved.
AfterAuthenticate(k) ==
    InvokeSend([k EXCEPT !.log = Append(@, "authenticated")])

\* if (progress) { progress.error = e; }
SetProgressError(h, progress, e) ==
    IF progress # None THEN [h EXCEPT ![progress[1]].error = Some(e)] ELSE h

\* Mutant of ResponseErr: the payload is raised as an untyped error.
ResponseErrPlain(res) == PlainError(res.error[1].message)

\* new Err(res.error.code, res.error.message)
ResponseErr(res) ==
    Err(Some(res.error[1].code), Some(res.error[1].message), NoOpts)

\* Mutant of AfterSend: the session is read from this.state again instead
\* of the one captured when the call started.
AfterSendLiveSession(k, res) ==
    LET k1 == [k EXCEPT !.res = Some(res), !.log = Append(@, "response")]
    IN  IF res.error # None THEN Throw(k1, ResponseErr(res))
        ELSE IF session # None
        THEN [k1 EXCEPT !.pc = "verify", !.verifyOn = session,
                        !.verifyArg = Some(res), !.log = Append(@, "verify")]
        ELSE Return(k1, res)

\* Mutant of AfterSend: with a session the response is verified before its
\* error is looked at.
AfterSendVerifyFirst(k, res) ==
    LET k1 == [k EXCEPT !.res = Some(res), !.log = Append(@, "response")]
    IN  IF k.session # None
        THEN [k1 EXCEPT !.pc = "verify", !.verifyOn = k.session,
                        !.verifyArg = Some(res), !.log = Append(@, "verify")]
        ELSE IF res.error # None THEN Throw(k1, ResponseErr(res))
        ELSE Return(k1, res)

\* call(), resumed after `await this.sender.send(req, progress)` resolved:
\* a structured error is raised; else with a session verify is invoked;
\* else the response is returned.
AfterSend(k, res) ==
    LET k1 == [k EXCEPT !.res = Some(res), !.log = Append(@, "response")]
    IN  IF res.error # None THEN Throw(k1, ResponseErr(res))
        ELSE IF k.session # None
        THEN [k1 EXCEPT !.pc = "verify", !.verifyOn = k.session,
                        !.verifyArg = Some(res), !.log = Append(@, "verify")]
        ELSE Return(k1, res)

\* Mutant of AfterVerify: the verdict is awaited but not tested.
AfterVerifyIgnoreVerdict(k, ok) ==
    Return([k EXCEPT !.verdict = Some(ok), !.log = Append(@, "verified")], k.res[1])

\* Mutant of AfterVerify: a negative verdict raises another kind.
AfterVerifyWrongKind(k, ok) ==
    LET k1 == [k EXCEPT !.verdict = Some(ok), !.log = Append(@, "verified")]
    IN  IF ~ok THEN Throw(k1, Err(Some("invalid_session"), None, NoOpts))
        ELSE Return(k1, k.res[1])

\* Mutant of AfterVerify: a negative verdict neither returns nor throws.
AfterVerifyHang(k, ok) ==
    LET k1 == [k EXCEPT !.verdict = Some(ok), !.log = Append(@, "verified")]
    IN  IF ~ok THEN [k1 EXCEPT !.pc = "hung"]
        ELSE Return(k1, k.res[1])

\* call(), resumed after `await session.verify(res)` resolved with ok.
AfterVerify(k, ok) ==
    LET k1 == [k EXCEPT !.verdict = Some(ok), !.log = Append(@, "verified")]
    IN  IF ~ok THEN Throw(k1, Err(Some("invalid_response"), None, NoOpts))
        ELSE Return(k1, k.res[1])

\* new RequestProgress()
NewProgress(h) == Append(h, [error |-> None])

Init ==
    /\ session \in {None} \cup {Some(x) : x \in Sessions}
    /\ calls = <<>>
    /\ heap = <<>>
    /\ atts = [a \in Attachments |-> [uploadProgress |-> None, downloadProgress |-> None]]
    /\ request = None /\ ctor = None /\ err = None

\* state.session is replaced by whoever holds the ClientState.
SetSession(s) ==
    /\ s # session
    /\ session' = s
    /\ UNCHANGED <<calls, heap, atts, errVars>>

\* getVault and the other operations that hand call() no progress object.
GetVault ==
    /\ Len(calls) < MaxCalls
    /\ calls' = Append(calls, EnterCall(NewOp("getVault", None), session, None))
    /\ UNCHANGED <<session, heap, atts, errVars>>

\* getAttachment(att): a new progress object, then call() with it.
GetAttachment(a) ==
    /\ Len(calls) < MaxCalls
    /\ heap' = NewProgress(heap)
    /\ atts' = [atts EXCEPT ![a].downloadProgress = Some(Len(heap'))]
    /\ calls' = Append(calls,
                       EnterCall([NewOp("getAttachment", Some(a))
                                     EXCEPT !.created = Some(Len(heap'))],
                                 session, atts'[a].downloadProgress))
    /\ UNCHANGED <<session, errVars>>

\* createAttachment(att), up to `await att.serialize()`.
CreateAttachment(a) ==
    /\ Len(calls) < MaxCalls
    /\ heap' = NewProgress(heap)
    /\ atts' = [atts EXCEPT ![a].uploadProgress = Some(Len(heap'))]
    /\ calls' = Append(calls, [NewOp("createAttachment", Some(a))
                                   EXCEPT !.pc = "serialize",
                                          !.created = Some(Len(heap'))])
    /\ UNCHANGED <<session, errVars>>

\* createAttachment(att), resumed: call() with att.uploadProgress as it is now.
SerializeResolves(c) ==
    /\ calls[c].pc = "serialize"
    /\ calls' = [calls EXCEPT ![c] =
                    EnterCall(@, session, atts[calls[c].att[1]].uploadProgress)]
    /\ UNCHANGED <<session, heap, atts, errVars>>

SerializeRaises(c, e) ==
    /\ calls[c].pc = "serialize"
    /\ calls' = [calls EXCEPT ![c] = Throw(@, e)]
    /\ UNCHANGED <<session, heap, atts, errVars>>

AuthenticateResolves(c) ==
    /\ calls[c].pc = "authenticate"
    /\ calls' = [calls EXCEPT ![c] = AfterAuthenticate(@)]
    /\ UNCHANGED <<session, heap, atts, errVars>>

\* Mutant of AuthenticateRaises: the session's error is wrapped in an Err.
AuthenticateRaisesWrapped(c, e) ==
    /\ calls[c].pc = "authenticate"
    /\ calls' = [calls EXCEPT ![c] =
                    Throw(@, Err(Some("invalid_session"), None,
                                 [NoOpts EXCEPT !.error = Some(e)]))]
    /\ UNCHANGED <<session, heap, atts, errVars>>

\* The rejection of authenticate leaves call() uncaught.
AuthenticateRaises(c, e) ==
    /\ calls[c].pc = "authenticate"
    /\ calls' = [calls EXCEPT ![c] = Throw(@, e)]
    /\ UNCHANGED <<session, heap, atts, errVars>>

SendResolves(c, res) ==
    /\ calls[c].pc = "send"
    /\ calls' = [calls EXCEPT ![c] = AfterSend(@, res)]
    /\ heap' = IF res.error # None
               THEN SetProgressError(heap, calls[c].progress, ResponseErr(res))
               ELSE heap
    /\ UNCHANGED <<session, atts, errVars>>

\* catch (e) { if (progress) progress.error = e; throw e; }
SendRaises(c, e) ==
    /\ calls[c].pc = "send"
    /\ calls' = [calls EXCEPT ![c] = Throw(@, e)]
    /\ heap' = SetProgressError(heap, calls[c].progress, e)
    /\ UNCHANGED <<session, atts, errVars>>

VerifyResolves(c, ok) ==
    /\ calls[c].pc = "verify"
    /\ calls' = [calls EXCEPT ![c] = AfterVerify(@, ok)]
    /\ heap' = IF ~ok
               THEN SetProgressError(heap, calls[c].progress,
                                     Err(Some("invalid_response"), None, NoOpts))
               ELSE heap
    /\ UNCHANGED <<session, atts, errVars>>

\* The rejection of verify leaves call() uncaught.
VerifyRaises(c, e) ==
    /\ calls[c].pc = "verify"
    /\ calls' = [calls EXCEPT ![c] = Throw(@, e)]
    /\ UNCHANGED <<session, heap, atts, errVars>>

Next ==
    \/ \E s \in {None} \cup {Some(x) : x \in Sessions} : SetSession(s)
    \/ GetVault
    \/ \E a \in Attachments : GetAttachment(a)
    \/ \E a \in Attachments : CreateAttachment(a)
    \/ \E c \in DOMAIN calls : SerializeResolves(c)
    \/ \E c \in DOMAIN calls : \E e \in SerializeErrors : SerializeRaises(c, e)
    \/ \E c \in DOMAIN calls : AuthenticateResolves(c)
    \/ \E c \in DOMAIN calls : \E e \in AuthenticateErrors : AuthenticateRaises(c, e)
    \/ \E c \in DOMAIN calls : \E res \in Responses : SendResolves(c, res)
    \/ \E c \in DOMAIN calls : \E e \in SendErrors : SendRaises(c, e)
    \/ \E c \in DOMAIN calls : \E ok \in BOOLEAN : VerifyResolves(c, ok)
    \/ \E c \in DOMAIN calls : \E e \in VerifyErrors : VerifyRaises(c, e)

Spec == Init /\ [][Next]_vars

(***************************************************************************)
(* Properties of the call pipeline, checked under Spec.                    *)
(***************************************************************************)
\* The positions of event ev in a log.
At(log, ev) == {i \in DOMAIN log : log[i] = ev}

Started(k) == At(k.log, "call") # {}

\* C1: in a call started with a session, authenticate is invoked and has
\* completed before send is invoked; verify is invoked only after send
\* returned a response without a structured error, and before the call
\* returns; each of the three happens at most once.
C1_AuthenticateSendVerifyOrder ==
    \A c \in DOMAIN calls :
        LET k == calls[c]
            log == k.log
        IN  (Started(k) /\ k.session # None) =>
            /\ At(log, "authenticate") # {}
            /\ \A e \in {"authenticate", "send", "verify"} : Cardinality(At(log, e)) <= 1
            /\ \A i \in At(log, "send") :
                   \E a \in At(log, "authenticate") : \E d \in At(log, "authenticated") :
                       a < d /\ d < i
            /\ \A i \in At(log, "verify") :
                   /\ \E s \in At(log, "send") : \E r \in At(log, "response") :
                          s < r /\ r < i
                   /\ k.res # None /\ k.res[1].error = None
                   /\ \A r \in At(log, "return") : i < r
            /\ \A r \in At(log, "return") : \E v \in At(log, "verify") : v < r

C1_Witness ==
    \E c \in DOMAIN calls :
        /\ calls[c].session # None
        /\ calls[c].log = <<"call", "authenticate", "authenticated", "send",
                            "response", "verify", "verified", "return">>

\* C2: a call that had a session never returns a response unless verify was
\* invoked with that very response and resolved to true.
C2_ReturnedImpliesVerified ==
    \A c \in DOMAIN calls :
        (calls[c].pc = "returned" /\ calls[c].session # None) =>
            /\ calls[c].verifyArg = calls[c].result
            /\ calls[c].verdict = Some(TRUE)

C2_Witness ==
    \E c \in DOMAIN calls :
        /\ calls[c].pc = "returned"
        /\ calls[c].session # None
        /\ calls[c].result[1].result = Some("r2")
        /\ calls[c].verifyArg[1].result = Some("r2")

\* C3: a call started while state.session is null never invokes authenticate
\* nor verify and sends its envelope straight away; and an envelope reaches
\* the sender without a completed authenticate only in a call that had no
\* session.
C3_NoSessionNoAuthenticate ==
    \A c \in DOMAIN calls :
        LET k == calls[c]
            log == k.log
        IN  /\ (Started(k) /\ k.session = None) =>
                /\ At(log, "authenticate") = {} /\ At(log, "verify") = {}
                /\ k.authOn = None /\ k.verifyOn = None
                /\ At(log, "send") # {}
            /\ \A i \in At(log, "send") :
                   (\A d \in At(log, "authenticated") : d > i) => k.session = None

C3_Witness ==
    \E c \in DOMAIN calls :
        /\ calls[c].session = None
        /\ calls[c].log = <<"call", "send", "response", "return">>
        /\ session # None

\* C4: when verify resolves to false (so the transport succeeded and the
\* response carried no structured error), the call rejects with an Err of
\* kind invalid_response and returns no response.
C4_NegativeVerdictRejects ==
    \A c \in DOMAIN calls :
        calls[c].verdict = Some(FALSE) =>
            /\ calls[c].res # None /\ calls[c].res[1].error = None
            /\ calls[c].pc = "rejected"
            /\ calls[c].error # None
            /\ calls[c].error[1].class = "Err"
            /\ calls[c].error[1].code = Some("invalid_response")
            /\ calls[c].result = None

C4_Witness ==
    \E c \in DOMAIN calls :
        /\ calls[c].verdict = Some(FALSE)
        /\ calls[c].res[1].result = Some("r1")

\* C5: for a call handed a progress object: in the step in which the call
\* rejects at transport dispatch, on a structured error or on a negative
\* verdict, progress.error is the error raised; in the step in which the
\* call returns, progress.error is unset.
C5_ProgressErrorTracksOutcome ==
    [][ \A c \in DOMAIN calls :
            LET k == calls[c]
                n == calls'[c]
            IN  (k.progress # None /\ k.pc \in {"send", "verify"}) =>
                /\ (/\ n.pc = "rejected"
                    /\ (k.pc = "send" \/ n.verdict = Some(FALSE)))
                      => heap'[k.progress[1]].error = n.error
                /\ n.pc = "returned" => heap'[k.progress[1]].error = None
      ]_vars

\* C6, as claimed: every call that fails surfaces an Err, and no result.
C6_EveryFailureIsErr ==
    \A c \in DOMAIN calls :
        (Started(calls[c]) /\ calls[c].pc = "rejected") =>
            /\ calls[c].error # None
            /\ calls[c].error[1].class = "Err"
            /\ calls[c].result = None

\* C6, amended: every call that fails surfaces exactly one error and no
\* result, and a call that returns surfaces no error.  The error is an Err
\* made by the pipeline, of the response's declared kind for a structured
\* error and of kind invalid_response for a negative verdict; when
\* authenticate, send or verify raises, it is that raised error, unwrapped.
C6_OneErrorPerFailure ==
    \A c \in DOMAIN calls :
        LET k == calls[c]
            log == k.log
        IN  Started(k) =>
            /\ k.pc = "returned" => (k.error = None /\ At(log, "throw") = {})
            /\ k.pc = "rejected" =>
                /\ k.error # None /\ k.result = None
                /\ Cardinality(At(log, "throw")) = 1 /\ At(log, "return") = {}
                /\ log[Len(log)] = "throw"
                /\ log[Len(log) - 1] = "authenticate" => k.error[1] \in AuthenticateErrors
                /\ log[Len(log) - 1] = "send" => k.error[1] \in SendErrors
                /\ log[Len(log) - 1] = "verify" => k.error[1] \in VerifyErrors
                /\ log[Len(log) - 1] = "response" =>
                       /\ k.error[1].class = "Err"
                       /\ k.error[1].code = Some(k.res[1].error[1].code)
                /\ log[Len(log) - 1] = "verified" =>
                       /\ k.error[1].class = "Err"
                       /\ k.error[1].code = Some("invalid_response")

C6_Witness ==
    \E c \in DOMAIN calls : \E d \in DOMAIN calls :
        /\ calls[c].pc = "rejected" /\ calls[c].res # None
        /\ calls[c].error[1].class = "Err"
        /\ calls[d].pc = "rejected" /\ calls[d].error[1] \in AuthenticateErrors

(***************************************************************************)
(* SpecErr: error.ts on its own.  The initial state holds the input of     *)
(* one function; the action applies the function to it.                    *)
(***************************************************************************)
InitErr ==
    /\ err = None
    /\ session = None /\ calls = <<>> /\ heap = <<>>
    /\ atts = [a \in Attachments |-> [uploadProgress |-> None, downloadProgress |-> None]]
    /\ \/ request \in {Some(r) : r \in Requests} /\ ctor = None
       \/ ctor \in {Some(a) : a \in CtorArgs} /\ request = None

Decode ==
    /\ request # None
    /\ err = None
    /\ err' = Some(errFromRequest(request[1]))
    /\ UNCHANGED <<request, ctor, clientVars>>

Construct ==
    /\ ctor # None
    /\ err = None
    /\ err' = Some(Err(ctor[1].code, ctor[1].message, ctor[1].opts))
    /\ UNCHANGED <<request, ctor, clientVars>>

NextErr == Decode \/ Construct

SpecErr == InitErr /\ [][NextErr]_vars

(***************************************************************************)
(* Properties of error.ts, checked under SpecErr.                          *)
(***************************************************************************)
\* The body parsed as a payload that carries both `error` and `message`.
Structured(text) ==
    /\ ~unmarshal(text).threw
    /\ unmarshal(text).type = "object"
    /\ unmarshal(text).error # None
    /\ unmarshal(text).message # None

\* d is the first digit of the decimal numeral of s >= 0.
LeadingDigitIs(s, d) ==
    \/ s = 0 /\ d = 0
    \/ d >= 1 /\ \E p \in {1, 10, 100, 1000} : d * p <= s /\ s < (d + 1) * p

\* C7: for a body that parses as a payload {error, message}, errFromRequest
\* returns an Err whose kind is the payload's error, whose message is the
\* payload's message and whose status is the transport status, whatever
\* the status.
C7_StructuredPayloadWins ==
    (request # None /\ err # None /\ Structured(request[1].responseText)) =>
        /\ err[1].code = unmarshal(request[1].responseText).error
        /\ err[1].message = unmarshal(request[1].responseText).message[1]
        /\ err[1].status = request[1].status

\* C8: for a body the try block fails on, the kind follows from the first
\* character of the decimal status alone: "0" failed_connection, "3"
\* unexpected_redirect, "4" client_error, anything else (other digits, "-")
\* server_error; so 0, 302, 404, 503 give failed_connection,
\* unexpected_redirect, client_error, server_error.
C8_HeuristicKind ==
    (request # None /\ err # None /\ TryRaises(request[1].responseText)) =>
        LET s == request[1].status
            kind == err[1].code
        IN  /\ kind = IF s < 0 THEN Some("server_error")
                      ELSE IF LeadingDigitIs(s, 0) THEN Some("failed_connection")
                      ELSE IF LeadingDigitIs(s, 3) THEN Some("unexpected_redirect")
                      ELSE IF LeadingDigitIs(s, 4) THEN Some("client_error")
                      ELSE Some("server_error")
            /\ s = 0 => kind = Some("failed_connection")
            /\ s = 302 => kind = Some("unexpected_redirect")
            /\ s = 404 => kind = Some("client_error")
            /\ s \in {503, 100, 200, -1} => kind = Some("server_error")

C8_Witness ==
    /\ request = Some([responseText |-> BodyHtml, status |-> 302])
    /\ err # None
    /\ err[1].code = Some("unexpected_redirect")

\* C9: in every heuristic branch the Err's message is the raw body text and
\* its status is the transport status, status 0 included.
C9_HeuristicMessageAndStatus ==
    (request # None /\ err # None /\ TryRaises(request[1].responseText)) =>
        /\ err[1].message = request[1].responseText
        /\ err[1].status = request[1].status

\* C10: an Err constructed with an explicit status s has status s, for
\* every kind and every s.
C10_ExplicitStatusWins ==
    (ctor # None /\ err # None /\ ctor[1].opts.status # None) =>
        err[1].status = ctor[1].opts.status[1]

\* C11: for every declared kind, an Err constructed with no message, no
\* cause and no status override has the kind's entry of the messages table
\* as its message ("" if the kind has none) and the kind's entry of the
\* statusCodes table as its status (500 if the kind has none).
C11_TableDefaults ==
    (/\ ctor # None /\ err # None
     /\ ctor[1].message = None
     /\ ctor[1].opts.error = None
     /\ ctor[1].opts.status = None) =>
        LET k == ctor[1].code[1]
        IN  /\ k \in ErrorCode
            /\ err[1].code = Some(k)
            /\ err[1].message =
                   CASE k = "email_verification_failed" -> "Email verification failed."
                     [] k = "invalid_credentials" -> "Username or password incorrect."
                     [] k = "account_exists" -> "This account already exists."
                     [] OTHER -> ""
            /\ err[1].status =
                   CASE k \in {"bad_request", "email_verification_failed"} -> 400
                     [] k \in {"invalid_session", "session_expired",
                               "invalid_credentials"} -> 401
                     [] k = "insufficient_permissions" -> 403
                     [] k = "not_found" -> 404
                     [] k = "deprecated_api_version" -> 406
                     [] k = "account_exists" -> 409
                     [] OTHER -> 500

C11_Witness ==
    /\ ctor # None /\ err # None
    /\ ctor[1].code = Some("merge_conflict")
    /\ ctor[1].message = None
    /\ ctor[1].opts = NoOpts
    /\ err[1].message = "" /\ err[1].status = 500

\* C20: whatever the options, display equals report and both equal the
\* report option (false when it is absent); a display option changes
\* nothing in the constructed Err.
C20_DisplayFollowsReport ==
    (ctor # None /\ err # None) =>
        /\ err[1].display = err[1].report
        /\ err[1].report = (ctor[1].opts.report = Some(TRUE))
        /\ \A d \in OptBool :
               err[1] = Err(ctor[1].code, ctor[1].message,
                            [ctor[1].opts EXCEPT !.display = d])

C20_Witness ==
    /\ ctor # None /\ err # None
    /\ ctor[1].opts.display = Some(TRUE)
    /\ ctor[1].opts.report = None
    /\ err[1].display = FALSE

(***************************************************************************)
(* Further properties of the call pipeline.                                *)
(***************************************************************************)
Tracked(k) == k.op \in {"createAttachment", "getAttachment"}

\* C12: under any interleaving of tracked operations, two on the same
\* Attachment included, each hands call() the progress object it created
\* itself, no two calls share a progress object, and an error found on a
\* progress object is the error of the call that created it.
C12_OwnProgressPerCall ==
    /\ \A c \in DOMAIN calls :
           (Tracked(calls[c]) /\ Started(calls[c])) =>
               /\ calls[c].progress # None
               /\ calls[c].progress = calls[c].created
               /\ \A d \in DOMAIN calls :
                      d # c => calls[d].progress # calls[c].progress
    /\ \A p \in DOMAIN heap :
           heap[p].error # None =>
               \E c \in DOMAIN calls :
                   calls[c].created = Some(p) /\ calls[c].error = heap[p].error

(***************************************************************************)
(* SpecSwap: a client on which only untracked operations are started,      *)
(* while state.session moves among null and two Session objects.           *)
(***************************************************************************)
SwapSessions == {"s1", "s2"}

InitSwap ==
    /\ session \in {None} \cup {Some(x) : x \in SwapSessions}
    /\ calls = <<>>
    /\ heap = <<>>
    /\ atts = [a \in Attachments |-> [uploadProgress |-> None, downloadProgress |-> None]]
    /\ request = None /\ ctor = None /\ err = None

NextSwap ==
    \/ \E s \in {None} \cup {Some(x) : x \in SwapSessions} : SetSession(s)
    \/ GetVault
    \/ \E c \in DOMAIN calls : AuthenticateResolves(c)
    \/ \E c \in DOMAIN calls : \E e \in AuthenticateErrors : AuthenticateRaises(c, e)
    \/ \E c \in DOMAIN calls : \E res \in Responses : SendResolves(c, res)
    \/ \E c \in DOMAIN calls : \E e \in SendErrors : SendRaises(c, e)
    \/ \E c \in DOMAIN calls : \E ok \in BOOLEAN : VerifyResolves(c, ok)
    \/ \E c \in DOMAIN calls : \E e \in VerifyErrors : VerifyRaises(c, e)

SpecSwap == InitSwap /\ [][NextSwap]_vars

\* C13: a call keeps the session it read from state.session when it
\* started, whatever state.session becomes while the call is in flight:
\* authenticate and verify are invoked on that session, and a call that
\* started with a null session never invokes verify.
C13_CapturedSession ==
    [][ \A c \in DOMAIN calls' :
            LET n == calls'[c]
                new == c \notin DOMAIN calls \/ ~Started(calls[c])
            IN  /\ (new /\ Started(n)) => n.session = session
                /\ ~new => n.session = calls[c].session
                /\ n.authOn # None => n.authOn = n.session
                /\ n.verifyOn # None => (n.verifyOn = n.session /\ n.verifyOn = n.authOn)
                /\ (Started(n) /\ n.session = None) =>
                       (n.verifyOn = None /\ At(n.log, "verify") = {})
                /\ (n.session # None /\ At(n.log, "verify") # {}) =>
                       n.verifyOn = n.session
                /\ (n.session # None /\ n.pc = "returned") => At(n.log, "verify") # {}
      ]_vars

C13_Witness ==
    \E c \in DOMAIN calls :
        /\ calls[c].authOn = Some("s1")
        /\ calls[c].verifyOn = Some("s1")
        /\ calls[c].pc = "returned"
        /\ session = Some("s2")

(***************************************************************************)
(* Properties of the call pipeline, continued; checked under Spec.         *)
(***************************************************************************)
\* The response of call k carries a structured error.
ErrorResponse(k) == k.res # None /\ k.res[1].error # None

\* C14, as claimed: on a response with a structured error the call raises
\* an Err whose kind and message are the response's code and message and
\* whose status is the kind's table default (500 if none); verify is not
\* invoked on that response.
C14_StructuredErrorAsDeclared ==
    \A c \in DOMAIN calls :
        ErrorResponse(calls[c]) =>
            LET k == calls[c]
                e == k.res[1].error[1]
            IN  /\ k.pc = "rejected" /\ k.error # None /\ k.result = None
                /\ k.error[1].class = "Err"
                /\ k.error[1].code = Some(e.code)
                /\ k.error[1].message = e.message
                /\ k.error[1].status =
                       IF statusCodes(Some(e.code)) # None
                       THEN statusCodes(Some(e.code))[1] ELSE 500
                /\ At(k.log, "verify") = {} /\ k.verifyOn = None

\* C14, amended: as above, but the message is the response's message only
\* when that is not empty; for an empty message it is the kind's default
\* message ("" if the kind has none).
C14_StructuredErrorRaised ==
    \A c \in DOMAIN calls :
        ErrorResponse(calls[c]) =>
            LET k == calls[c]
                e == k.res[1].error[1]
            IN  /\ k.pc = "rejected" /\ k.error # None /\ k.result = None
                /\ k.error[1].class = "Err"
                /\ k.error[1].code = Some(e.code)
                /\ e.message # "" => k.error[1].message = e.message
                /\ e.message = "" =>
                       k.error[1].message =
                           IF messages(Some(e.code)) # None
                           THEN messages(Some(e.code))[1] ELSE ""
                /\ k.error[1].status =
                       IF statusCodes(Some(e.code)) # None
                       THEN statusCodes(Some(e.code))[1] ELSE 500
                /\ e.code = "invalid_credentials" => k.error[1].status = 401
                /\ e.code = "teapot" => k.error[1].status = 500
                /\ At(k.log, "verify") = {} /\ k.verifyOn = None

C14_Witness ==
    \E c \in DOMAIN calls : \E d \in DOMAIN calls :
        /\ calls[c].session # None
        /\ ErrorResponse(calls[c])
        /\ calls[c].error[1].message = "short and stout"
        /\ ErrorResponse(calls[d])
        /\ calls[d].res[1].error[1].message = ""
        /\ calls[d].error[1].message = "Username or password incorrect."

\* C15: a call invokes authenticate, send and verify at most once each,
\* surfaces at most one outcome, and once it has failed (or returned) it
\* takes no further step.
C15_NoRetry ==
    [][ \A c \in DOMAIN calls' :
            LET n == calls'[c]
            IN  /\ \A e \in {"authenticate", "send", "verify"} :
                       Cardinality(At(n.log, e)) <= 1
                /\ Cardinality(At(n.log, "throw") \cup At(n.log, "return")) <= 1
                /\ n.pc = "rejected" => n.log[Len(n.log)] = "throw"
                /\ (c \in DOMAIN calls /\ calls[c].pc \in {"rejected", "returned"})
                       => n = calls[c]
      ]_vars

C15_Witness ==
    \E c \in DOMAIN calls : \E d \in DOMAIN calls :
        /\ calls[c].log = <<"call", "authenticate", "authenticated", "send", "throw">>
        /\ calls[d].log = <<"call", "authenticate", "authenticated", "send",
                            "response", "verify", "verified", "throw">>

\* The call failed because the named collaborator call raised.
RaisedAt(k, ev) ==
    /\ k.pc = "rejected"
    /\ Len(k.log) >= 2
    /\ k.log[Len(k.log)] = "throw"
    /\ k.log[Len(k.log) - 1] = ev

\* C16: when a call that was handed a progress object rejects because
\* authenticate raised, or because verify raised, progress.error is the
\* raised error.
C16_ProgressRecordsEveryFailure ==
    \A c \in DOMAIN calls :
        (/\ calls[c].progress # None
         /\ (RaisedAt(calls[c], "authenticate") \/ RaisedAt(calls[c], "verify"))) =>
            heap[calls[c].progress[1]].error = calls[c].error

\* C17: when authenticate raises, send and verify are never invoked for
\* that call and the call rejects with the session's error itself.
C17_AuthenticateFailureStopsCall ==
    \A c \in DOMAIN calls :
        LET k == calls[c]
        IN  (/\ At(k.log, "authenticate") # {}
             /\ At(k.log, "authenticated") = {}
             /\ k.pc # "authenticate") =>
                /\ k.pc = "rejected"
                /\ k.log = <<"call", "authenticate", "throw">>
                /\ At(k.log, "send") = {} /\ At(k.log, "verify") = {}
                /\ k.res = None /\ k.result = None /\ k.verifyOn = None
                /\ k.error # None
                /\ k.error[1] \in AuthenticateErrors

C17_Witness ==
    \E c \in DOMAIN calls :
        /\ RaisedAt(calls[c], "authenticate")
        /\ calls[c].authOn = Some("s1")
        /\ calls[c].error = Some(PlainError("authenticate failed"))

\* C18: every Err made by errFromRequest, and every Err raised for a
\* structured error of a response, has a kind of the ErrorCode enumeration.
C18_KindsAreDeclared ==
    /\ (request # None /\ err # None) =>
           err[1].code \in {Some(k) : k \in ErrorCode}
    /\ \A c \in DOMAIN calls :
           (ErrorResponse(calls[c]) /\ calls[c].pc = "rejected") =>
               calls[c].error[1].code \in {Some(k) : k \in ErrorCode}

(***************************************************************************)
(* SpecFair: a client on which untracked operations are started while      *)
(* state.session is set and cleared, with every pending authenticate,      *)
(* send and verify eventually resolving or raising.                        *)
(***************************************************************************)
\* The collaborator call that call c awaits resolves or raises.
Settle(c) ==
    \/ AuthenticateResolves(c)
    \/ \E e \in AuthenticateErrors : AuthenticateRaises(c, e)
    \/ \E res \in Responses : SendResolves(c, res)
    \/ \E e \in SendErrors : SendRaises(c, e)
    \/ \E ok \in BOOLEAN : VerifyResolves(c, ok)
    \/ \E e \in VerifyErrors : VerifyRaises(c, e)

Fairness == \A c \in 1..MaxCalls : WF_vars(c \in DOMAIN calls /\ Settle(c))

NextFair ==
    \/ \E s \in {None} \cup {Some(x) : x \in Sessions} : SetSession(s)
    \/ GetVault
    \/ \E c \in DOMAIN calls : Settle(c)

SpecFair == Init /\ [][NextFair]_vars /\ Fairness

Terminated(c) == c \in DOMAIN calls /\ calls[c].pc \in {"returned", "rejected"}

\* C19: if every authenticate, send and verify eventually resolves or
\* raises, every started call eventually has returned its response or
\* rejected with an error, and never both.
C19_CallsTerminate ==
    /\ [](\A c \in DOMAIN calls :
              /\ calls[c].pc = "returned" =>
                     (calls[c].result = calls[c].res /\ calls[c].res # None
                      /\ calls[c].error = None)
              /\ calls[c].pc = "rejected" =>
                     (calls[c].error # None /\ calls[c].result = None)
              /\ calls[c].pc \notin {"returned", "rejected"} =>
                     (calls[c].error = None /\ calls[c].result = None))
    /\ \A c \in 1..MaxCalls :
           (c \in DOMAIN calls /\ Started(calls[c])) ~> Terminated(c)

C19_Witness ==
    /\ Len(calls) = MaxCalls
    /\ \A c \in DOMAIN calls : Started(calls[c]) /\ Terminated(c)
    /\ \E c \in DOMAIN calls : calls[c].pc = "returned"
    /\ \E c \in DOMAIN calls : calls[c].pc = "rejected"

====
